---- MODULE Spec2Model ----
(***************************************************************************)
(* Hardbody-Cluster: the gauge mathematics of src/src/lib.rs               *)
(* (draw_fuel_gauge, draw_temp_gauge) and the sampling / recovery loop of  *)
(* src/src/main.rs (main, run_once, fatal_reset).                          *)
(*                                                                         *)
(* f32 values are modelled bit-exactly: a finite value is sign * m * 2^e   *)
(* with m = 0 or 2^23 <= m < 2^24, and every arithmetic operation rounds   *)
(* to nearest, ties to even, as IEEE-754 binary32 does.  All intermediate  *)
(* integers stay below 2^31.                                               *)
(***************************************************************************)
EXTENDS Integers, Sequences, FiniteSets, TLC

(***************************************************************************)
(* Bounds of the model (not program constants).                            *)
(***************************************************************************)
\* number of coarse sample points across the whole code range 0..32767
NumCoarse == 12
\* number of fine sample points across the fuel sender's working range
NumFine == 14
\* the logarithm's outcome is sampled at k/2 for k in -LnSpan..LnSpan
LnSpan == 20

(***************************************************************************)
(* IEEE-754 binary32 arithmetic                                            *)
(***************************************************************************)
TwoTo23 == 2^23
TwoTo24 == 2^24
\* largest exponent of the 24-bit integer significand of a binary32 number
\* (2^127 = 2^23 * 2^104).  No value computed here comes near the smallest
\* normal number, so subnormal results are not modelled.
MaxExp == 127 - 23

Fin(s, m, e) == [k |-> "fin", s |-> s, m |-> m, e |-> e]
Inf(s) == [k |-> "inf", s |-> s, m |-> 0, e |-> 0]
NaN == [k |-> "nan", s |-> 1, m |-> 0, e |-> 0]
Zero(s) == Fin(s, 0, 0)

IsZero(x) == x.k = "fin" /\ x.m = 0

RECURSIVE BitLen(_)
BitLen(n) == IF n = 0 THEN 0 ELSE 1 + BitLen(n \div 2)

\* sign * (n * 2^e [+ something below one unit of n, when sticky]) rounded to
\* binary32, nearest-even; 0 <= n < 2^31.  A sticky n has at least 25 bits.
RoundF32(s, n, e, sticky) ==
    IF n = 0 THEN Zero(s)
    ELSE LET bl == BitLen(n) IN
         IF bl <= 24
         THEN Fin(s, n * 2^(24 - bl), e - (24 - bl))
         ELSE LET k    == bl - 24
                  q    == n \div 2^k
                  r    == n % 2^k
                  half == 2^(k - 1)
                  up   == r > half \/ (r = half /\ (sticky \/ q % 2 = 1))
                  m    == IF up THEN q + 1 ELSE q
                  mm   == IF m = TwoTo24 THEN TwoTo23 ELSE m
                  ee   == IF m = TwoTo24 THEN e + k + 1 ELSE e + k
              IN IF ee > MaxExp THEN Inf(s) ELSE Fin(s, mm, ee)

\* `i as f32` for an integer of magnitude below 2^24 (exact)
FromInt(i) == IF i < 0 THEN RoundF32(-1, -i, 0, FALSE) ELSE RoundF32(1, i, 0, FALSE)

Neg(x) == [x EXCEPT !.s = -x.s]

\* magnitude comparison of two finite values: -1, 0, 1
CmpMag(x, y) ==
    IF x.m = 0 \/ y.m = 0
    THEN (IF x.m = y.m THEN 0 ELSE IF x.m = 0 THEN -1 ELSE 1)
    ELSE IF x.e # y.e THEN (IF x.e < y.e THEN -1 ELSE 1)
    ELSE IF x.m = y.m THEN 0 ELSE IF x.m < y.m THEN -1 ELSE 1

\* x < y on f32 (false when either is NaN; -0.0 = 0.0)
Lt(x, y) ==
    IF x.k = "nan" \/ y.k = "nan" THEN FALSE
    ELSE IF x.k = "inf" THEN x.s = -1 /\ ~(y.k = "inf" /\ y.s = -1)
    ELSE IF y.k = "inf" THEN y.s = 1
    ELSE IF IsZero(x) /\ IsZero(y) THEN FALSE
    ELSE IF x.s # y.s THEN x.s = -1
    ELSE IF x.s = 1 THEN CmpMag(x, y) = -1 ELSE CmpMag(x, y) = 1

Gt(x, y) == Lt(y, x)

\* sum of two finite values, |x| >= |y|, y # 0: x's significand gets three
\* guard bits, y is aligned to it and what falls off the end is kept sticky
AddAligned(x, y) ==
    LET d    == x.e - y.e
        big  == x.m * 8
        sh   == d - 3
        yi   == IF sh <= 0 THEN y.m * 2^(-sh)
                ELSE IF sh >= 25 THEN 0 ELSE y.m \div 2^sh
        lost == IF sh <= 0 THEN FALSE
                ELSE IF sh >= 25 THEN TRUE ELSE y.m % 2^sh # 0
    IN IF x.s = y.s
       THEN RoundF32(x.s, big + yi, x.e - 3, lost)
       ELSE IF lost THEN RoundF32(x.s, big - yi - 1, x.e - 3, TRUE)
       ELSE IF big = yi THEN Zero(1)
       ELSE RoundF32(x.s, big - yi, x.e - 3, FALSE)

\* x + y on f32
Add(x, y) ==
    IF x.k = "nan" \/ y.k = "nan" THEN NaN
    ELSE IF x.k = "inf" THEN (IF y.k = "inf" /\ y.s # x.s THEN NaN ELSE x)
    ELSE IF y.k = "inf" THEN y
    ELSE IF IsZero(y) THEN (IF IsZero(x) /\ x.s # y.s THEN Zero(1) ELSE x)
    ELSE IF IsZero(x) THEN y
    ELSE IF CmpMag(x, y) >= 0 THEN AddAligned(x, y) ELSE AddAligned(y, x)

\* x - y on f32
Sub(x, y) == Add(x, Neg(y))

\* x * y on f32: the 48-bit product of the significands from 12-bit halves
Mul(x, y) ==
    IF x.k = "nan" \/ y.k = "nan" THEN NaN
    ELSE IF x.k = "inf" \/ y.k = "inf"
         THEN (IF IsZero(x) \/ IsZero(y) THEN NaN ELSE Inf(x.s * y.s))
    ELSE IF IsZero(x) \/ IsZero(y) THEN Zero(x.s * y.s)
    ELSE LET a1  == x.m \div 4096
             a0  == x.m % 4096
             b1  == y.m \div 4096
             b0  == y.m % 4096
             lo  == a0 * b0
             mid == a1 * b0 + a0 * b1 + lo \div 4096
             hi  == a1 * b1 + mid \div 4096
             \* product = hi * 2^24 + (mid % 4096) * 2^12 + lo % 4096
             n   == hi * 4 + (mid % 4096) \div 1024
             st  == (mid % 1024) # 0 \/ (lo % 4096) # 0
         IN RoundF32(x.s * y.s, n, x.e + y.e + 22, st)

\* long division: the quotient floor(r * 2^bits / d) and whether it is inexact
RECURSIVE LongDiv(_, _, _, _)
LongDiv(r, d, bits, q) ==
    IF bits = 0 THEN <<q, r # 0>>
    ELSE IF 2 * r >= d THEN LongDiv(2 * r - d, d, bits - 1, 2 * q + 1)
    ELSE LongDiv(2 * r, d, bits - 1, 2 * q)

\* x / y on f32
Div(x, y) ==
    IF x.k = "nan" \/ y.k = "nan" THEN NaN
    ELSE IF x.k = "inf" THEN (IF y.k = "inf" THEN NaN ELSE Inf(x.s * y.s))
    ELSE IF y.k = "inf" THEN Zero(x.s * y.s)
    ELSE IF IsZero(y) THEN (IF IsZero(x) THEN NaN ELSE Inf(x.s * y.s))
    ELSE IF IsZero(x) THEN Zero(x.s * y.s)
    ELSE LET q0 == IF x.m >= y.m THEN 1 ELSE 0
             r0 == IF x.m >= y.m THEN x.m - y.m ELSE x.m
             qr == LongDiv(r0, y.m, 26, q0)
         IN RoundF32(x.s * y.s, qr[1], x.e - y.e - 26, qr[2])

\* `x as i32`: truncation toward zero, saturating, NaN gives 0
I32Max == 2147483647
I32Min == -2147483647 - 1
AsI32(x) ==
    IF x.k = "nan" THEN 0
    ELSE IF x.k = "inf" \/ (x.m # 0 /\ x.e >= 8)
         THEN (IF x.s = 1 THEN I32Max ELSE I32Min)
    ELSE IF x.m = 0 \/ x.e <= -24 THEN 0
    ELSE IF x.e >= 0 THEN x.s * (x.m * 2^(x.e))
    ELSE x.s * (x.m \div 2^(-x.e))

\* `x as u8`: truncation toward zero, saturating to 0..255, NaN gives 0
AsU8(x) ==
    LET i == AsI32(x) IN IF i < 0 THEN 0 ELSE IF i > 255 THEN 255 ELSE i

(***************************************************************************)
(* src/src/lib.rs: literals, as the binary32 values the compiler gives them *)
(***************************************************************************)
ADC_MAX == 32767
I16_MIN == -32768
R_PULL == FromInt(1000)
R_FULL == Fin(1, 15938355, -22)          \* 3.8
R_EMPTY == FromInt(93)
RATIO_HI == Fin(1, 16777199, -24)        \* 0.999_999
RATIO_LO == Fin(1, 8796093, -43)         \* 1e-6
BETA == FromInt(3962)
R25 == FromInt(325)
MIN_F == FromInt(120)
MAX_F == FromInt(270)
T25_K == Fin(1, 9769779, -15)            \* 298.15
KELVIN0 == Fin(1, 8950579, -15)          \* 273.15
C1_8 == Fin(1, 15099494, -23)            \* 1.8
Half == Fin(1, 8388608, -24)             \* 0.5
One == FromInt(1)

\* Point::new(15, 5), Point::new(113, 5): the bar's first and last column
START_X == 15
END_X == 113
BarW == END_X - START_X

IMax(a, b) == IF a >= b THEN a ELSE b
\* f32::min on two numbers
FMin(x, y) == IF Lt(y, x) THEN y ELSE x

(***************************************************************************)
(* draw_fuel_gauge: ratiometric fuel percentage and pointer column         *)
(***************************************************************************)
\* the upper clamp of the ratio, lib.rs:43-45 and lib.rs:139-141
ClampHi_NoClamp(ratio) == ratio
ClampHi(ratio) == IF Gt(ratio, RATIO_HI) THEN RATIO_HI ELSE ratio

\* lib.rs:38: the divisor
FuelV33(v33_adc) == FMin(FromInt(IMax(v33_adc, 1)), FromInt(ADC_MAX))

\* lib.rs:39-45
FuelRatio(adc, v33_adc) ==
    LET v33 == FuelV33(v33_adc)
        r0  == Div(FMin(FromInt(IMax(adc, 0)), FromInt(ADC_MAX)), v33)
        r1  == IF Lt(r0, Zero(1)) THEN Zero(1) ELSE r0
    IN ClampHi(r1)

ratio_full == Div(R_FULL, Add(R_PULL, R_FULL))
ratio_empty == Div(R_EMPTY, Add(R_PULL, R_EMPTY))

\* lib.rs:52-58, with the polarity inverted (empty at low resistance)
FuelFraction_Inverted(ratio) ==
    LET p0 == Div(Sub(ratio, ratio_full), Sub(ratio_empty, ratio_full))
        p1 == IF Lt(p0, Zero(1)) THEN Zero(1) ELSE p0
    IN IF Gt(p1, One) THEN One ELSE p1

\* lib.rs:52-58, without the upper clamp of lib.rs:56-58
FuelFraction_NoUpperClamp(ratio) ==
    LET p0 == Div(Sub(ratio_empty, ratio), Sub(ratio_empty, ratio_full))
    IN IF Lt(p0, Zero(1)) THEN Zero(1) ELSE p0

\* lib.rs:52-58
FuelFraction(ratio) ==
    LET p0 == Div(Sub(ratio_empty, ratio), Sub(ratio_empty, ratio_full))
        p1 == IF Lt(p0, Zero(1)) THEN Zero(1) ELSE p0
    IN IF Gt(p1, One) THEN One ELSE p1

\* lib.rs:59
FuelPct(pct_f) == AsU8(Add(Mul(pct_f, FromInt(100)), Half))

\* lib.rs:90
FuelXPos(pct) == START_X + (pct * BarW) \div 100

\* what draw_fuel_gauge computes from its arguments
FuelGauge(adc, v33_adc) ==
    LET ratio == FuelRatio(adc, v33_adc)
        pct   == FuelPct(FuelFraction(ratio))
    IN [adc |-> adc, v33_adc |-> v33_adc, v33 |-> FuelV33(v33_adc),
        ratio |-> ratio, pct |-> pct, x_pos |-> FuelXPos(pct)]

(***************************************************************************)
(* draw_temp_gauge: thermistor resistance, temperature and pointer column  *)
(***************************************************************************)
\* lib.rs:134: the divisor
TempV33(v33_adc) == FromInt(IMax(v33_adc, 1))

\* lib.rs:135-141, without the lower clamp of lib.rs:136-138
TempRatio_NoEpsilon(adc, v33_adc) ==
    ClampHi(Div(FromInt(IMax(adc, 0)), TempV33(v33_adc)))

\* lib.rs:135-141
TempRatio(adc, v33_adc) ==
    LET v33 == TempV33(v33_adc)
        r0  == Div(FromInt(IMax(adc, 0)), v33)
        r1  == IF Lt(r0, RATIO_LO) THEN RATIO_LO ELSE r0
    IN ClampHi(r1)

\* lib.rs:144, the divisor 1.0 - ratio
TempDenominator(ratio) == Sub(One, ratio)

\* lib.rs:144
TempRth(ratio) == Div(Mul(R_PULL, ratio), TempDenominator(ratio))

\* (r_th / R25).ln() is micromath's F32Ext::ln, which is not part of the
\* repository: its result is any of these binary32 values, NaN and the
\* infinities included
LnOutcomes ==
    {NaN, Inf(1), Inf(-1)}
        \cup {Div(FromInt(k), FromInt(2)) : k \in (-LnSpan)..LnSpan}

\* lib.rs:146-149, given the logarithm's result
TempF(lnv) ==
    LET inv_t == Add(Div(One, T25_K), Div(lnv, BETA))
        t_k   == Div(One, inv_t)
        t_c   == Sub(t_k, KELVIN0)
    IN Add(Mul(t_c, C1_8), FromInt(32))

\* f32::clamp(0.0, 1.0): a NaN stays NaN
Clamp01(x) ==
    LET y == IF Lt(x, Zero(1)) THEN Zero(1) ELSE x
    IN IF Gt(y, One) THEN One ELSE y

\* lib.rs:167, without the clamp
TempFraction_Unclamped(t_f) == Div(Sub(t_f, MIN_F), Sub(MAX_F, MIN_F))

\* lib.rs:167
TempFraction(t_f) == Clamp01(Div(Sub(t_f, MIN_F), Sub(MAX_F, MIN_F)))

\* round(): to the nearest integer, halves away from zero (NaN stays NaN)
Round(x) ==
    IF x.k # "fin" \/ x.m = 0 \/ x.e >= 0 THEN x
    ELSE IF x.e <= -25 THEN Zero(x.s)
    ELSE LET sh == -x.e
             t  == x.m \div 2^sh
             up == IF x.m % 2^sh >= 2^(sh - 1) THEN 1 ELSE 0
         IN FromInt(x.s * (t + up))

\* lib.rs:168
TempXPos(pct) == START_X + AsI32(Round(Mul(pct, FromInt(BarW))))

\* lib.rs:146-168: the pointer's column, given the logarithm's result
TempColumn(lnv) == TempXPos(TempFraction(TempF(lnv)))

\* the columns the pointer can be drawn at
TempColumns == {TempColumn(lnv) : lnv \in LnOutcomes}

\* what draw_temp_gauge computes from its arguments up to the logarithm;
\* x_pos is filled in by the caller from TempColumns
TempGauge(adc, v33_adc) ==
    LET ratio == TempRatio(adc, v33_adc)
        r_th  == TempRth(ratio)
    IN [adc |-> adc, v33_adc |-> v33_adc, v33 |-> TempV33(v33_adc),
        ratio |-> ratio, den |-> TempDenominator(ratio), r_th |-> r_th,
        ln_arg |-> Div(r_th, R25), x_pos |-> 0]

(***************************************************************************)
(* Sample points of the signed 16-bit code range                           *)
(***************************************************************************)
Codes ==
    {I16_MIN, -1, 0, 1, 2, ADC_MAX - 1, ADC_MAX}
        \cup {(i * ADC_MAX) \div NumCoarse : i \in 0..NumCoarse}
        \cup {i * (2800 \div NumFine) : i \in 1..NumFine}

\* codes a conversion of the sampling loop returns
LoopCodes == {1600, ADC_MAX}

(***************************************************************************)
(* State                                                                   *)
(***************************************************************************)
VARIABLES
    pc,        \* position of main / run_once
    conv,      \* 1..10: the next conversion of the cycle; 0 outside sampling
    locals,    \* run_once's _discard, temp, calibration1, fuel, calibration2,
               \* batt_voltage: each [val, seq], seq the conversion it came from
    log,       \* what the current cycle (or the startup) has done so far
    failedAt,  \* the step that reported failure, "none" if none has
    out_temp,  \* what the last draw_temp_gauge call computed
    out_fuel,  \* what the last draw_fuel_gauge call computed
    in_adc,    \* gauge calls on their own: the sensor code,
    in_v33,    \*   the reference code,
    out_fuel2  \*   and draw_fuel_gauge's result for a second sensor code

vars == <<pc, conv, locals, log, failedAt, out_temp, out_fuel,
          in_adc, in_v33, out_fuel2>>
callVars == <<in_adc, in_v33, out_fuel2>>

NoSample == [val |-> 0, seq |-> 0]
NoLocals ==
    [discard |-> NoSample, temp |-> NoSample, calibration1 |-> NoSample,
     fuel |-> NoSample, calibration2 |-> NoSample, batt_voltage |-> NoSample]
NoOut == [adc |-> 0, v33_adc |-> 0, v33 |-> NaN, ratio |-> NaN, x_pos |-> 0]

\* events of the log: <<kind, a, b, c>>
Ev(kind, a, b, c) == <<kind, a, b, c>>

(***************************************************************************)
(* src/src/main.rs: run_once up to the loop                                *)
(*                                                                         *)
(* Every fallible call is a step that succeeds or fails.  The heap is not  *)
(* a source of failure here: each format! of lib.rs allocates a few bytes  *)
(* of the 1024-byte arena and frees them before the next statement.        *)
(***************************************************************************)
\* `?` on an Err, if the error were swallowed and the cycle started over
ReturnErr_Retry(step) ==
    /\ pc' = "sample"
    /\ failedAt' = step
    /\ conv' = 1

\* `?` on an Err: run_once returns Err(()) to main
ReturnErr(step) ==
    /\ pc' = "failed"
    /\ failedAt' = step
    /\ conv' = 0

\* .unwrap() on an Err: panic, and panic_halt's handler spins forever
PanicHalt(step) ==
    /\ pc' = "halted"
    /\ failedAt' = step
    /\ conv' = 0

\* a fallible startup step whose error is propagated with `?`
StartupStep(step, next, ok) ==
    /\ pc = step
    /\ log' = Append(log, Ev(step, 0, 0, IF ok THEN 1 ELSE 0))
    /\ IF ok THEN pc' = next /\ UNCHANGED <<failedAt, conv>>
             ELSE ReturnErr(step)
    /\ UNCHANGED <<locals, out_temp, out_fuel, callVars>>

\* main.rs:43-53: init_clocks_and_plls(...).ok().unwrap()
InitClocks ==
    \E ok \in BOOLEAN :
        /\ pc = "init_clocks"
        /\ log' = Append(log, Ev("init_clocks", 0, 0, IF ok THEN 1 ELSE 0))
        /\ IF ok THEN pc' = "set_data_rate" /\ UNCHANGED <<failedAt, conv>>
                 ELSE PanicHalt("init_clocks")
        /\ UNCHANGED <<locals, out_temp, out_fuel, callVars>>

\* main.rs:69: adc.set_data_rate(..).unwrap()
SetDataRate ==
    \E ok \in BOOLEAN :
        /\ pc = "set_data_rate"
        /\ log' = Append(log, Ev("set_data_rate", 0, 0, IF ok THEN 1 ELSE 0))
        /\ IF ok THEN pc' = "set_full_scale_range" /\ UNCHANGED <<failedAt, conv>>
                 ELSE PanicHalt("set_data_rate")
        /\ UNCHANGED <<locals, out_temp, out_fuel, callVars>>

\* main.rs:70-71
SetFullScaleRange ==
    \E ok \in BOOLEAN : StartupStep("set_full_scale_range", "display1_init", ok)

\* main.rs:75, 79
DisplayInit(d) ==
    \E ok \in BOOLEAN :
        IF d = 1 THEN StartupStep("display1_init", "display2_init", ok)
                 ELSE StartupStep("display2_init", "startup_clear1", ok)

\* main.rs:92-93
StartupClear(d) ==
    \E ok \in BOOLEAN :
        IF d = 1 THEN StartupStep("startup_clear1", "startup_clear2", ok)
                 ELSE StartupStep("startup_clear2", "startup_flush1", ok)

\* main.rs:94-95; after the second flush run_once enters its loop
StartupFlush(d) ==
    \E ok \in BOOLEAN :
        IF d = 1
        THEN StartupStep("startup_flush1", "startup_flush2", ok)
        ELSE /\ pc = "startup_flush2"
             /\ log' = Append(log, Ev("startup_flush2", 0, 0, IF ok THEN 1 ELSE 0))
             /\ IF ok THEN pc' = "sample" /\ conv' = 1 /\ UNCHANGED failedAt
                      ELSE ReturnErr("startup_flush2")
             /\ UNCHANGED <<locals, out_temp, out_fuel, callVars>>

(***************************************************************************)
(* src/src/main.rs: the sampling loop                                      *)
(***************************************************************************)
NumConv == 10

\* main.rs:98-107: the channel of the i-th conversion of a cycle
\* (SingleA0, SingleA0, SingleA3, SingleA3, SingleA1, ...)
ChannelOf(i) == <<0, 0, 3, 3, 1, 1, 3, 3, 2, 2>>[i]

\* main.rs:98-107: the local the i-th conversion's result is bound to
SlotOf_KeepFirst(i) ==
    <<"temp", "discard", "calibration1", "discard", "fuel", "discard",
      "calibration2", "discard", "batt_voltage", "discard">>[i]
SlotOf(i) ==
    <<"discard", "temp", "discard", "calibration1", "discard", "fuel",
      "discard", "calibration2", "discard", "batt_voltage">>[i]

\* main.rs:98-107: one block!(adc.read(channel)).map_err(|_| ())?
\* The first conversion of a cycle starts a new iteration of the loop body:
\* the previous iteration's locals are gone.
Convert ==
    \E ok \in BOOLEAN, v \in LoopCodes :
        LET base == IF conv = 1 THEN NoLocals ELSE locals
            hist == IF conv = 1 THEN <<>> ELSE log
        IN /\ pc = "sample"
           /\ log' = Append(hist, Ev("conv", ChannelOf(conv), conv, IF ok THEN 1 ELSE 0))
           /\ out_temp' = (IF conv = 1 THEN NoOut ELSE out_temp)
           /\ out_fuel' = (IF conv = 1 THEN NoOut ELSE out_fuel)
           /\ IF ok
              THEN /\ locals' = [base EXCEPT ![SlotOf(conv)] = [val |-> v, seq |-> conv]]
                   /\ IF conv < NumConv
                      THEN pc' = "sample" /\ conv' = conv + 1
                      ELSE pc' = "clear1" /\ conv' = 0
                   /\ UNCHANGED failedAt
              ELSE /\ locals' = base
                   /\ ReturnErr("conv")
           /\ UNCHANGED callVars

\* main.rs:109-114 with each flush moved before its gauge call
NextStage_FlushBeforeDraw(step) ==
    CASE step = "clear1" -> "flush1"
      [] step = "flush1" -> "draw_temp"
      [] step = "draw_temp" -> "clear2"
      [] step = "clear2" -> "flush2"
      [] step = "flush2" -> "draw_fuel"
      [] step = "draw_fuel" -> "sample"

\* main.rs:109-115: the statement that follows each statement of the loop's
\* rendering part; after display2's flush the loop starts over
NextStage(step) ==
    CASE step = "clear1" -> "draw_temp"
      [] step = "draw_temp" -> "flush1"
      [] step = "flush1" -> "clear2"
      [] step = "clear2" -> "draw_fuel"
      [] step = "draw_fuel" -> "flush2"
      [] step = "flush2" -> "sample"

\* a rendering statement of the loop has returned: go on, or return Err
Advance(step, ok) ==
    IF ok
    THEN /\ pc' = NextStage(step)
         /\ conv' = (IF NextStage(step) = "sample" THEN 1 ELSE 0)
         /\ UNCHANGED failedAt
    ELSE ReturnErr(step)

\* main.rs:109, 112
Clear(d) ==
    \E ok \in BOOLEAN :
        /\ pc = (IF d = 1 THEN "clear1" ELSE "clear2")
        /\ log' = Append(log, Ev("clear", d, 0, IF ok THEN 1 ELSE 0))
        /\ Advance(pc, ok)
        /\ UNCHANGED <<locals, out_temp, out_fuel, callVars>>

\* main.rs:111, 114
Flush(d) ==
    \E ok \in BOOLEAN :
        /\ pc = (IF d = 1 THEN "flush1" ELSE "flush2")
        /\ log' = Append(log, Ev("flush", d, 0, IF ok THEN 1 ELSE 0))
        /\ Advance(pc, ok)
        /\ UNCHANGED <<locals, out_temp, out_fuel, callVars>>

\* lib.rs:163-211: draw_temp_gauge's draw operations, in program order
TempOps ==
    <<"bar", "pointer", "tick30", "tick98", "C", "H", "temperature", "volts">>
\* lib.rs:77-114: draw_fuel_gauge's draw operations, in program order
FuelOps ==
    <<"bar", "tick0", "tick1", "tick2", "tick3", "tick4", "pointer",
      "E", "F", "percent", "volts">>

\* the draw operations a gauge call issues on surface d when the surface
\* rejects the f-th of its n operations (f = 0: it rejects none), if the
\* call went on after a rejected operation
DrawOps_ContinueAfterFailure(d, n, f) ==
    [k \in 1..n |-> Ev("op", d, k, IF k = f THEN 0 ELSE 1)]

\* .draw(display)? : the first rejected operation ends the call
DrawOps(d, n, f) ==
    [k \in 1..(IF f = 0 THEN n ELSE f) |-> Ev("op", d, k, IF k = f THEN 0 ELSE 1)]

\* main.rs:110 and lib.rs:122-214
DrawTemp ==
    LET g == TempGauge(locals.temp.val, locals.calibration1.val) IN
    \E f \in 0..Len(TempOps), x_pos \in TempColumns :
        /\ pc = "draw_temp"
        /\ out_temp' = [g EXCEPT !.x_pos = x_pos]
        /\ log' = Append(log, Ev("draw_temp_gauge", locals.temp.seq,
                                 locals.calibration1.seq, 0))
                    \o DrawOps(1, Len(TempOps), f)
        /\ Advance("draw_temp", f = 0)
        /\ UNCHANGED <<locals, out_fuel, callVars>>

\* main.rs:113 and lib.rs:14-117
DrawFuel ==
    LET g == FuelGauge(locals.fuel.val, locals.calibration2.val) IN
    \E f \in 0..Len(FuelOps) :
        /\ pc = "draw_fuel"
        /\ out_fuel' = g
        /\ log' = Append(log, Ev("draw_fuel_gauge", locals.fuel.seq,
                                 locals.calibration2.seq, locals.batt_voltage.seq))
                    \o DrawOps(2, Len(FuelOps), f)
        /\ Advance("draw_fuel", f = 0)
        /\ UNCHANGED <<locals, out_temp, callVars>>

(***************************************************************************)
(* src/src/main.rs: main and fatal_reset                                   *)
(***************************************************************************)
\* main.rs:27-29 and 118-121: run_once returned Err, main calls fatal_reset,
\* which requests the system reset and never returns
FatalReset ==
    /\ pc = "failed"
    /\ pc' = "resetting"
    /\ log' = Append(log, Ev("fatal_reset", 0, 0, 0))
    /\ UNCHANGED <<conv, locals, failedAt, out_temp, out_fuel, callVars>>

\* the state in which main starts run_once after a reset
Booted ==
    /\ pc = "init_clocks"
    /\ conv = 0
    /\ locals = NoLocals
    /\ log = <<>>
    /\ failedAt = "none"
    /\ out_temp = NoOut
    /\ out_fuel = NoOut

\* main.rs:24-26: the reset restarts the program from its entry point
ColdBoot ==
    /\ pc = "resetting"
    /\ pc' = "init_clocks"
    /\ conv' = 0
    /\ locals' = NoLocals
    /\ log' = <<>>
    /\ failedAt' = "none"
    /\ out_temp' = NoOut
    /\ out_fuel' = NoOut
    /\ UNCHANGED callVars

\* main.rs:9: panic_halt's handler, an endless loop
Halted ==
    /\ pc = "halted"
    /\ UNCHANGED vars

Init ==
    /\ Booted
    /\ in_adc = 0
    /\ in_v33 = 0
    /\ out_fuel2 = NoOut

Next ==
    \/ InitClocks
    \/ SetDataRate
    \/ SetFullScaleRange
    \/ \E d \in {1, 2} : DisplayInit(d)
    \/ \E d \in {1, 2} : StartupClear(d)
    \/ \E d \in {1, 2} : StartupFlush(d)
    \/ Convert
    \/ \E d \in {1, 2} : Clear(d)
    \/ DrawTemp
    \/ \E d \in {1, 2} : Flush(d)
    \/ DrawFuel
    \/ FatalReset
    \/ ColdBoot
    \/ Halted

Spec == Init /\ [][Next]_vars

\* main.rs:27-29: once run_once has returned Err, nothing stands between main
\* and its call of fatal_reset (one thread of control, no preemption)
FairSpec == Init /\ [][Next]_vars /\ WF_vars(FatalReset)

(***************************************************************************)
(* The gauge calls on their own, for any pair of codes                     *)
(***************************************************************************)
GaugeInit ==
    /\ pc = "call"
    /\ conv = 0
    /\ locals = NoLocals
    /\ log = <<>>
    /\ failedAt = "none"
    /\ out_temp = NoOut
    /\ out_fuel = NoOut
    /\ out_fuel2 = NoOut
    /\ in_adc \in Codes
    /\ in_v33 \in Codes

\* draw_fuel_gauge(display, in_adc, _, in_v33), and the same call for a
\* second sensor code that is not below the first
CallFuel ==
    LET first == FuelGauge(in_adc, in_v33) IN
    \E adc2 \in {c \in Codes : c >= in_adc} :
        /\ pc = "call"
        /\ pc' = "fuel_returned"
        /\ out_fuel' = first
        /\ out_fuel2' = FuelGauge(adc2, in_v33)
        /\ UNCHANGED <<conv, locals, log, failedAt, out_temp, in_adc, in_v33>>

\* draw_temp_gauge(display, in_adc, in_v33)
CallTemp ==
    LET g == TempGauge(in_adc, in_v33) IN
    \E x_pos \in TempColumns :
        /\ pc = "call"
        /\ pc' = "temp_returned"
        /\ out_temp' = [g EXCEPT !.x_pos = x_pos]
        /\ UNCHANGED <<conv, locals, log, failedAt, out_fuel, callVars>>

GaugeNext == CallFuel \/ CallTemp

GaugeSpec == GaugeInit /\ [][GaugeNext]_vars

(***************************************************************************)
(* Properties                                                              *)
(***************************************************************************)
ConvFailedAt(i) == log[i][1] = "conv" /\ log[i][4] = 0
ConvFailed == \E i \in 1..Len(log) : ConvFailedAt(i)
InLoop == Len(log) > 0 /\ log[1][1] = "conv"
Pos(x) == x.k = "fin" /\ x.m > 0 /\ x.s = 1

C1_NothingAfterFailedConv ==
    \A i \in 1..Len(log) :
        ConvFailedAt(i) =>
            /\ pc \in {"failed", "resetting"}
            /\ failedAt = "conv"
            /\ pc = "failed" => Len(log) = i
            /\ pc = "resetting" =>
                   Len(log) = i + 1 /\ log[i + 1] = Ev("fatal_reset", 0, 0, 0)
\* C1: once a conversion of the cycle has reported failure, the loop is in
\* FAILED or has invoked fatal_reset; nothing at all happens between the
\* failing conversion and the one fatal_reset that follows it; and the
\* fatal_reset does follow.
C1_ConvFailureRestartsOnce ==
    /\ []C1_NothingAfterFailedConv
    /\ ConvFailed ~> (pc = "resetting")
C1_Witness ==
    /\ pc = "resetting"
    /\ Len(log) = 6
    /\ ConvFailedAt(5)
    /\ locals.temp.seq = 2

\* C2: the conversions of a cycle are requested on channels 0, 0, 3, 3, 1, 1,
\* 3, 3, 2, 2 in this order; the first result of each pair only ever reaches
\* _discard, the second is the one retained; and the gauge calls get the
\* retained results of conversions 2 and 4 (temperature) and 6, 10 and 8
\* (fuel), never a result taken right after a channel switch.
C2_ConversionOrder ==
    /\ \A i \in 1..Len(log) :
           /\ log[i][1] = "conv" =>
                  /\ i <= 10
                  /\ log[i][3] = i
                  /\ log[i][2] = <<0, 0, 3, 3, 1, 1, 3, 3, 2, 2>>[i]
                  /\ \A j \in 1..(i - 1) : log[j][1] = "conv" /\ log[j][4] = 1
           /\ log[i][1] = "draw_temp_gauge" => log[i] = Ev("draw_temp_gauge", 2, 4, 0)
           /\ log[i][1] = "draw_fuel_gauge" => log[i] = Ev("draw_fuel_gauge", 6, 8, 10)
    /\ locals.discard.seq \in {0, 1, 3, 5, 7, 9}
    /\ locals.temp.seq \in {0, 2}
    /\ locals.calibration1.seq \in {0, 4}
    /\ locals.fuel.seq \in {0, 6}
    /\ locals.calibration2.seq \in {0, 8}
    /\ locals.batt_voltage.seq \in {0, 10}
    /\ pc \in {"clear1", "draw_temp", "flush1", "clear2", "draw_fuel", "flush2"} =>
           /\ Len(log) >= 10
           /\ \A j \in 1..10 : log[j][1] = "conv" /\ log[j][4] = 1
    /\ out_temp # NoOut =>
           out_temp.adc = locals.temp.val /\ out_temp.v33_adc = locals.calibration1.val
    /\ out_fuel # NoOut =>
           out_fuel.adc = locals.fuel.val /\ out_fuel.v33_adc = locals.calibration2.val
C2_Witness ==
    /\ pc = "flush2"
    /\ locals.discard.val # locals.batt_voltage.val
    /\ locals.temp.val # locals.calibration1.val
    /\ out_fuel # NoOut
    /\ out_temp # NoOut

\* C3: whenever one of the fallible steps the claim names has failed, the
\* program is in FAILED or on its way through the restart.
C3Steps ==
    {"set_data_rate", "set_full_scale_range", "display1_init", "display2_init",
     "startup_clear1", "startup_clear2", "startup_flush1", "startup_flush2",
     "conv", "clear1", "draw_temp", "flush1", "clear2", "draw_fuel", "flush2"}
C3_EveryFailureRestarts ==
    failedAt \in C3Steps => pc \in {"failed", "resetting"}

\* C7: in the loop, display1 is cleared, drawn on by draw_temp_gauge and
\* flushed, then display2 is cleared, drawn on by draw_fuel_gauge and flushed,
\* each step directly after the successful end of the one before; the first
\* clear comes directly after the tenth successful conversion; and a completed
\* cycle consists of exactly these steps.
Accepted(i, kind, d, k) == i >= 1 /\ log[i] = Ev(kind, d, k, 1)
C7_RenderingOrder ==
    /\ \A i \in 1..Len(log) :
           /\ log[i][1] = "clear" /\ log[i][2] = 1 =>
                  i = 11 /\ \A j \in 1..10 : log[j][1] = "conv" /\ log[j][4] = 1
           /\ log[i][1] = "draw_temp_gauge" => Accepted(i - 1, "clear", 1, 0)
           /\ log[i][1] = "op" /\ log[i][2] = 1 =>
                  IF log[i][3] = 1 THEN log[i - 1][1] = "draw_temp_gauge"
                  ELSE Accepted(i - 1, "op", 1, log[i][3] - 1)
           /\ log[i][1] = "flush" /\ log[i][2] = 1 => Accepted(i - 1, "op", 1, 8)
           /\ log[i][1] = "clear" /\ log[i][2] = 2 => Accepted(i - 1, "flush", 1, 0)
           /\ log[i][1] = "draw_fuel_gauge" => Accepted(i - 1, "clear", 2, 0)
           /\ log[i][1] = "op" /\ log[i][2] = 2 =>
                  IF log[i][3] = 1 THEN log[i - 1][1] = "draw_fuel_gauge"
                  ELSE Accepted(i - 1, "op", 2, log[i][3] - 1)
           /\ log[i][1] = "flush" /\ log[i][2] = 2 => Accepted(i - 1, "op", 2, 11)
    /\ pc = "sample" /\ conv = 1 /\ InLoop =>
           /\ Len(log) = 35
           /\ Accepted(35, "flush", 2, 0)
           /\ \A i \in 1..35 : log[i][1] \in {"draw_temp_gauge", "draw_fuel_gauge"}
                                  \/ log[i][4] = 1
C7_Witness ==
    /\ pc = "sample"
    /\ conv = 1
    /\ InLoop
    /\ Accepted(Len(log), "flush", 2, 0)

\* C9: a gauge call issues its draw operations in their program order, and
\* once the surface has rejected one, that operation is the last thing the
\* cycle does before fatal_reset: no further draw operation, no second attempt
\* at the rejected one, no flush; the call has returned the failure.
C9_FirstRejectionAbortsFrame ==
    \A i \in 1..Len(log) :
        log[i][1] = "op" =>
            /\ log[i][3] \in 1..(IF log[i][2] = 1 THEN Len(TempOps) ELSE Len(FuelOps))
            /\ IF log[i][3] = 1
               THEN log[i - 1][1] \in {"draw_temp_gauge", "draw_fuel_gauge"}
               ELSE log[i - 1] = Ev("op", log[i][2], log[i][3] - 1, 1)
            /\ log[i][4] = 0 =>
                   /\ pc \in {"failed", "resetting"}
                   /\ failedAt = (IF log[i][2] = 1 THEN "draw_temp" ELSE "draw_fuel")
                   /\ \A j \in (i + 1)..Len(log) : log[j] = Ev("fatal_reset", 0, 0, 0)
C9_Witness ==
    /\ pc = "failed"
    /\ Len(log) > 3
    /\ log[Len(log)] = Ev("op", 2, 7, 0)

C5_FuelEndpoints ==
    pc = "fuel_returned" =>
        \A g \in {out_fuel, out_fuel2} :
            /\ ~Gt(g.ratio, ratio_full) => g.pct = 100
            /\ ~Lt(g.ratio, ratio_empty) => g.pct = 0
            /\ g.adc = 0 /\ g.v33_adc = 32767 => g.pct = 100
            /\ g.adc = 32767 /\ g.v33_adc = 32767 => g.pct = 0
C5_Witness ==
    /\ pc = "fuel_returned"
    /\ out_fuel.adc = 0 /\ out_fuel.v33_adc = 32767 /\ out_fuel.pct = 100
    /\ out_fuel2.adc = 32767 /\ out_fuel2.pct = 0

\* C6: for one reference code and two sensor codes adc1 <= adc2 the
\* percentage of adc1 is at least that of adc2, and every percentage is an
\* integer from 0 to 100.
C6_FuelMonotone ==
    pc = "fuel_returned" =>
        /\ out_fuel.v33_adc = out_fuel2.v33_adc
        /\ out_fuel.adc <= out_fuel2.adc => out_fuel.pct >= out_fuel2.pct
        /\ out_fuel.adc >= out_fuel2.adc => out_fuel.pct <= out_fuel2.pct
        /\ out_fuel.pct \in 0..100
        /\ out_fuel2.pct \in 0..100
C6_Witness ==
    /\ pc = "fuel_returned"
    /\ out_fuel.adc < out_fuel2.adc
    /\ out_fuel.pct < 100
    /\ out_fuel.pct > out_fuel2.pct
    /\ out_fuel2.pct > 0

\* C8: in draw_temp_gauge the divisor 1 - ratio is strictly positive, the
\* resistance R_th is finite and strictly positive, and so is R_th / R25,
\* the argument of the logarithm.
C8_ResistancePositiveFinite ==
    pc = "temp_returned" =>
        /\ Pos(out_temp.den)
        /\ Pos(out_temp.r_th)
        /\ Pos(out_temp.ln_arg)
C8_Witness ==
    /\ pc = "temp_returned"
    /\ out_temp.adc >= out_temp.v33_adc
    /\ out_temp.ratio = RATIO_HI
    /\ Pos(out_temp.r_th)

\* C10: the pointer's column is within the bar, 15..113, in both gauges; in
\* draw_fuel_gauge it is 15 + (pct * 98) / 100 with integer division, 15 at
\* 0 % and 113 at 100 %.
C10_PointerWithinBar ==
    /\ pc = "fuel_returned" =>
           \A g \in {out_fuel, out_fuel2} :
               /\ g.x_pos \in 15..113
               /\ g.x_pos = 15 + (g.pct * 98) \div 100
               /\ g.pct = 0 => g.x_pos = 15
               /\ g.pct = 100 => g.x_pos = 113
    /\ pc = "temp_returned" => out_temp.x_pos \in 15..113
C10_Witness ==
    /\ pc = "temp_returned"
    /\ out_temp.x_pos > 15
    /\ out_temp.x_pos < 113
====
